---- MODULE Spec2Model ----
(***************************************************************************)
(* A model of the glstsp crate (sls/2/glstsp): the distance matrix of      *)
(* GuidedLocalSearch, SymmetricMatrix and Graph, Path and Route with their *)
(* 2-opt twist and their edge iterators, the nearest-neighbour             *)
(* construction, the first-improvement local search and                    *)
(* GuidedLocalSearch::solve.                                               *)
(*                                                                         *)
(* Vectors (Vec<T>, slices) are functions over 0..len-1, so positions are  *)
(* the 0-based positions of the source.  The i32 and usize values of the   *)
(* model stay far below 2^31, so they are plain integers.                  *)
(***************************************************************************)
EXTENDS Integers, Sequences, FiniteSets, TLC

VARIABLES
    gls,           \* the GuidedLocalSearch: [size, data, penalty]
    neighborhood,  \* solve's shuffled neighbourhood order
    route,         \* the Route under construction: [path, cost]
    path,          \* a Path (types/path.rs), exercised on its own
    last,          \* the latest twist call: [i, j, before], or NoTwist
    nnCost,        \* cost of the nearest-neighbour tour, -1 before it is built
    lsCost,        \* cost after the initial local search, -1 before it ends
    maxUtility,    \* solve's max_utility, -1 before it is computed
    pc,            \* the position of the running operation
    debug,         \* TRUE in a build with debug assertions, FALSE in a release build
    input,         \* the points given to the constructors of the matrices
    matrix,        \* a SymmetricMatrix (types/matrix.rs): [size, data]
    graph,         \* a Graph (types/graph.rs): [size, data]
    out            \* what the latest call of a function without effect returned

vars == <<gls, neighborhood, route, path, last, nnCost, lsCost, maxUtility, pc,
          debug, input, matrix, graph, out>>

\* the variables that solve and twist leave alone
harness == <<debug, input, matrix, graph, out>>

----------------------------------------------------------------------------
(* Bounds of the model. *)

\* largest number of points given to GuidedLocalSearch::new
MaxN == 5
\* largest number of points in the runs checked for termination
MaxLiveN == 4
\* point coordinates are drawn from 0..MaxCoord
MaxCoord == 2
\* largest length of the paths whose twists are enumerated exhaustively
MaxLen == 5
\* in the twist runs the cost of a Route stays within -MaxCost..MaxCost
MaxCost == 1

\* largest number of points in the runs that start before GuidedLocalSearch::new
MaxBuildN == 2
\* largest number of points given to the three constructors of the distance matrix
MaxPoints == 3

\* largest size of the matrices whose entries are set and summed exhaustively
MaxMatN == 3
\* the values written by set are drawn from 0..MaxEntry
MaxEntry == 1
\* largest number of set calls on a matrix
MaxSets == 2

\* largest number of points in the local searches started from any route
MaxSearchN == 4

\* number of points, at most, in the local searches started from the sequential route
MaxScanN == 5
\* in those searches the point coordinates are drawn from 0..MaxScanCoord
MaxScanCoord == 1

\* the penalty factors compared with the factors of solve are drawn from 0..MaxFactor
MaxFactor == 2

\* largest length of the sequences whose Hamiltonian check is enumerated exhaustively
MaxHamLen == 4

\* length of the path of the twist tests, create_path() = [0, 1, ..., 7]
FixtureLen == 8

\* size of the matrix of the sum tests, simple_matrix() and simple_graph()
SimpleSize == 4

----------------------------------------------------------------------------
(* Vectors *)

VecLen(v) == Cardinality(DOMAIN v)

\* the vector holding the elements of the sequence s, in order
Vec(s) == [k \in 0..(Len(s) - 1) |-> s[k + 1]]

\* (0..size).collect()
Sequential(size) == [k \in 0..(size - 1) |-> k]

\* slice::swap(a, b)
Swap(v, a, b) == [v EXCEPT ![a] = v[b], ![b] = v[a]]

\* all vectors of length n that are permutations of 0..n-1
Perms(n) == {v \in [0..(n - 1) -> 0..(n - 1)] : \A a, b \in 0..(n - 1) : a /= b => v[a] /= v[b]}

\* Iterator::skip(n) of the elements of v
Skip(v, n) == [k \in 0..((VecLen(v) - n) - 1) |-> v[k + n]]

\* Iterator::chain: the elements of v, then those of w
Chain(v, w) ==
    [k \in 0..((VecLen(v) + VecLen(w)) - 1) |->
        IF k < VecLen(v) THEN v[k] ELSE w[k - VecLen(v)]]

\* Iterator::zip: the pairs of the elements at the same position, up to the
\* end of the shorter one
Zip(v, w) ==
    LET len == IF VecLen(v) <= VecLen(w) THEN VecLen(v) ELSE VecLen(w)
    IN  [k \in 0..(len - 1) |-> <<v[k], w[k]>>]

\* iter::once(x)
Once(x) == [k \in 0..0 |-> x]

----------------------------------------------------------------------------
(* types/point.rs *)

\* SqrtTrunc rounding up instead of down
SqrtCeil(n) == CHOOSE r \in 0..n : r * r >= n /\ (r = 0 \/ (r - 1) * (r - 1) < n)

\* f64::sqrt(n as f64) as i32 : the truncated square root
SqrtTrunc(n) == CHOOSE r \in 0..n : r * r <= n /\ (r + 1) * (r + 1) > n

\* Point::dist; with the coordinates of the model no i32 operation overflows
Dist(self, other) ==
    LET dx == self.x - other.x
        dy == self.y - other.y
    IN  SqrtTrunc((dx * dx) + (dy * dy))

----------------------------------------------------------------------------
(* types/path.rs and types/route.rs: the Hamiltonian check *)

Ok == [kind |-> "Ok"]
VisitedTwice(vertex) == [kind |-> "VisitedTwice", vertex |-> vertex]

\* visited[vertex] with a vertex that is not below the length of visited
IndexPanic == [kind |-> "panic"]

\* the loop of check_hamiltonian from position k on, visited being the set of
\* the vertices v with visited[v] = true
RECURSIVE CheckHamiltonianFrom(_, _, _)
CheckHamiltonianFrom(v, k, visited) ==
    IF k >= VecLen(v) THEN Ok
    ELSE IF v[k] >= VecLen(v) THEN IndexPanic
    ELSE IF v[k] \in visited THEN VisitedTwice(v[k])
    ELSE CheckHamiltonianFrom(v, k + 1, visited \cup {v[k]})

\* PathCheckHamiltonian that does not mark the first vertex as visited
PathCheckFromSecond(p) == CheckHamiltonianFrom(p, 1, {})

\* IndexMut<usize> for Path: path[index] = value, for index < len
PathPut(p, index, value) == [p EXCEPT ![index] = value]

\* debug_assert!(index < self.0.len()) of Index and IndexMut for Path fails
PathIndexPanics(dbg, p, index) == dbg /\ ~(index < VecLen(p))

\* Path::check_hamiltonian
PathCheckHamiltonian(p) == CheckHamiltonianFrom(p, 0, {})

\* Path::is_hamiltonian
PathIsHamiltonian(p) == PathCheckHamiltonian(p) = Ok

\* Route::check_hamiltonian
RouteCheckHamiltonian(r) == CheckHamiltonianFrom(r.path, 0, {})

\* Route::is_hamiltonian
RouteIsHamiltonian(r) == RouteCheckHamiltonian(r) = Ok

----------------------------------------------------------------------------
(* types/path.rs and types/route.rs: twist *)

\* TwistInside with the decrement of j left out
RECURSIVE TwistInsideKeepJ(_, _, _)
TwistInsideKeepJ(v, i, j) ==
    IF i < j THEN TwistInsideKeepJ(Swap(v, i, j), i + 1, j) ELSE v

\* the branch i <= j: while i < j { swap(i, j); i += 1; j -= 1 }
RECURSIVE TwistInside(_, _, _)
TwistInside(v, i, j) ==
    IF i < j THEN TwistInside(Swap(v, i, j), i + 1, j - 1) ELSE v

\* TwistMiddle one position further
TwistMiddleOff(len, i, j) == (i + ((len - (i - j + 1)) \div 2) + 1) % len

\* let middle = i + (len - (i - j + 1)) / 2; let middle = middle % len;
TwistMiddle(len, i, j) == (i + ((len - (i - j + 1)) \div 2)) % len

\* TwistOutside with the swap replaced by a copy of position j to position i
RECURSIVE TwistOutsideOverwrite(_, _, _, _)
TwistOutsideOverwrite(v, i, j, middle) ==
    LET len == VecLen(v)
        w == [v EXCEPT ![i] = v[j]]
    IN  IF i = middle THEN w
        ELSE TwistOutsideOverwrite(w, (i + 1) % len, (j + len - 1) % len, middle)

\* the branch i > j: loop { swap(i, j); if i == middle { break }
\*                          i = (i + 1) % len; j = (j + len - 1) % len }
RECURSIVE TwistOutside(_, _, _, _)
TwistOutside(v, i, j, middle) ==
    LET len == VecLen(v)
        w == Swap(v, i, j)
    IN  IF i = middle THEN w
        ELSE TwistOutside(w, (i + 1) % len, (j + len - 1) % len, middle)

\* TwistVec reversing, for i > j, the positions from j to i
TwistVecNoWrap(v, i, j) ==
    IF i <= j THEN TwistInside(v, i, j) ELSE TwistInside(v, j, i)

\* TwistVec with the first branch taken for i < j only
TwistVecStrict(v, i, j) ==
    IF i < j THEN TwistInside(v, i, j)
    ELSE TwistOutside(v, i, j, TwistMiddle(VecLen(v), i, j))

\* the vertices after twist(i, j): the code of Path::twist and of Route::twist
\* is the same on the vector
TwistVec(v, i, j) ==
    IF i <= j THEN TwistInside(v, i, j)
    ELSE TwistOutside(v, i, j, TwistMiddle(VecLen(v), i, j))

\* Path::twist
PathTwist(p, i, j) == TwistVec(p, i, j)

\* RouteTwist without the update of the cost
RouteTwistKeepCost(r, i, j, cost_change) ==
    [path |-> TwistVec(r.path, i, j), cost |-> r.cost]

\* Route::twist
RouteTwist(r, i, j, cost_change) ==
    [path |-> TwistVec(r.path, i, j), cost |-> r.cost + cost_change]

\* Route::new
RouteNew(p, cost) == [path |-> p, cost |-> cost]

\* debug_assert!(path.len() > 1) of Route::new fails: only a build with debug
\* assertions evaluates it
RouteNewPanics(dbg, p) == dbg /\ ~(VecLen(p) > 1)

\* Route::edge_from_vertices: vertices zipped with vertices.skip(1) chained
\* with vertices[0], that is each vertex with the next one of the cycle
Edges(v) == [k \in 0..(VecLen(v) - 1) |->
                <<v[k], IF k + 1 < VecLen(v) THEN v[k + 1] ELSE v[0]>>]

\* Route::edges
RouteEdges(r) == Edges(r.path)

\* PathEdges without the chained first vertex
PathEdgesOpen(p) == Zip(p, Skip(p, 1))

\* Path::edges: self.0 zipped with self.0.skip(1).chain(once(self.0[0]))
PathEdges(p) == Zip(p, Chain(Skip(p, 1), Once(p[0])))

\* InterpolateRow skipping one vertex less
InterpolateRowOff(p, skip, i) ==
    LET rest == Skip(p, i + skip)
    IN  [k \in DOMAIN rest |-> <<p[i], rest[k]>>]

\* the closure of interpolate_edges for the position i and its vertex:
\* self.0.skip(i + 1 + skip).map(|next_v| (v, next_v))
InterpolateRow(p, skip, i) ==
    LET rest == Skip(p, (i + 1) + skip)
    IN  [k \in DOMAIN rest |-> <<p[i], rest[k]>>]

\* the flat_map of interpolate_edges from position i on
RECURSIVE InterpolateFrom(_, _, _)
InterpolateFrom(p, skip, i) ==
    IF i >= VecLen(p) THEN Vec(<<>>)
    ELSE Chain(InterpolateRow(p, skip, i), InterpolateFrom(p, skip, i + 1))

\* Path::interpolate_edges
interpolate_edges(p, skip) == InterpolateFrom(p, skip, 0)

----------------------------------------------------------------------------
(* types/gls.rs: the matrix *)

\* GuidedLocalSearch::get_index
get_index(self, x, y) == (x * self.size) + y

\* Index<(usize, usize)> for GuidedLocalSearch: self[(x, y)]
At(self, x, y) == self.data[get_index(self, x, y)]

\* IndexMut<(usize, usize)> for GuidedLocalSearch: self[(x, y)] = value
GlsPut(self, x, y, value) == [self EXCEPT !.data[get_index(self, x, y)] = value]

\* the debug_assert!(x < self.size), debug_assert!(y < self.size) of get_index fail
GlsIndexPanics(dbg, self, x, y) == dbg /\ ~(x < self.size /\ y < self.size)

\* the index x * size + y of Index and IndexMut for GuidedLocalSearch is not
\* an index of data: get_unchecked and get_unchecked_mut are undefined
GlsIndexUndefined(self, x, y) == ~(get_index(self, x, y) < VecLen(self.data))

\* GuidedLocalSearch::penalty
penalty(self, x, y) == self.penalty[get_index(self, x, y)]

\* GuidedLocalSearch::from_data
from_data(size, data) ==
    [size |-> size, data |-> data, penalty |-> [k \in 0..((size * size) - 1) |-> 0]]

\* GuidedLocalSearch::from_size
from_size(size) == from_data(size, [k \in 0..((size * size) - 1) |-> 0])

\* GuidedLocalSearch::new: for every i and every j > i, dist = points[i].dist(points[j])
\* is stored at (i, j) and at (j, i); the other entries keep the 0 of from_size
New(points) ==
    LET size == VecLen(points)
        res == from_size(size)
    IN  [res EXCEPT !.data =
            [k \in 0..((size * size) - 1) |->
                LET x == k \div size
                    y == k % size
                IN  IF x < y THEN Dist(points[x], points[y])
                    ELSE IF y < x THEN Dist(points[y], points[x])
                    ELSE res.data[k]]]

\* the first loop of sum_edges from position k on: edges zipped with edges.skip(1)
RECURSIVE SumZip(_, _, _)
SumZip(self, edges, k) ==
    IF k + 1 >= VecLen(edges) THEN 0
    ELSE At(self, edges[k], edges[k + 1]) + SumZip(self, edges, k + 1)

\* assert_eq!(edges.len(), self.size) of GuidedLocalSearch::sum_edges fails
SumEdgesPanics(self, edges) == ~(VecLen(edges) = self.size)

\* sum_edges without the edge from the last vertex back to the first
SumEdgesOpen(self, edges) == SumZip(self, edges, 0)

\* GuidedLocalSearch::sum_edges (edges.len() = self.size is asserted)
sum_edges(self, edges) ==
    SumZip(self, edges, 0) + At(self, edges[VecLen(edges) - 1], edges[0])

\* GuidedLocalSearch::sequential_route
sequential_route(self) ==
    LET p == Sequential(self.size) IN RouteNew(p, sum_edges(self, p))

----------------------------------------------------------------------------
(* types/matrix.rs *)

\* SymmetricMatrix::from_size
MatrixFromSize(size) == [size |-> size, data |-> [k \in 0..((size * size) - 1) |-> 0]]

\* SymmetricMatrix::get_index
MatrixGetIndex(self, x, y) == (x * self.size) + y

\* Index<(usize, usize)> for SymmetricMatrix: self[(x, y)]
MatrixAt(self, x, y) == self.data[MatrixGetIndex(self, x, y)]

\* MatrixSet writing the entry (x, y) only
MatrixSetOneSide(self, x, y, value) ==
    [self EXCEPT !.data[MatrixGetIndex(self, x, y)] = value]

\* SymmetricMatrix::set
MatrixSet(self, x, y, value) ==
    LET ia == MatrixGetIndex(self, x, y)
        first == [self EXCEPT !.data[ia] = value]
        ib == MatrixGetIndex(first, y, x)
    IN  [first EXCEPT !.data[ib] = value]

\* SymmetricMatrix::set panics: at the debug_assert of get_index in a debug
\* build, at the checked self.data[ia] or self.data[ib] in both builds
MatrixSetPanics(dbg, self, x, y) ==
    \/ dbg /\ ~(x < self.size /\ y < self.size)
    \/ ~(MatrixGetIndex(self, x, y) < VecLen(self.data))
    \/ ~(MatrixGetIndex(self, y, x) < VecLen(self.data))

\* the matrix that a panicking set leaves: self.data[ia] = value is done
\* when the panic is the one of self.data[ib]
MatrixSetPartial(dbg, self, x, y, value) ==
    IF (dbg /\ ~(x < self.size /\ y < self.size))
          \/ ~(MatrixGetIndex(self, x, y) < VecLen(self.data))
    THEN self
    ELSE [self EXCEPT !.data[MatrixGetIndex(self, x, y)] = value]

\* the two loops of from_euclidean_coords from the pair (i, j) on:
\* for i in 0..size, for j in (i + 1)..size { res.set(i, j, points[i].dist(points[j])) }
RECURSIVE CoordsLoop(_, _, _, _)
CoordsLoop(res, pts, i, j) ==
    IF i >= VecLen(pts) THEN res
    ELSE IF j >= VecLen(pts) THEN CoordsLoop(res, pts, i + 1, i + 2)
    ELSE CoordsLoop(MatrixSet(res, i, j, Dist(pts[i], pts[j])), pts, i, j + 1)

\* SymmetricMatrix::from_euclidean_coords (size > 0 is asserted)
from_euclidean_coords(pts) == CoordsLoop(MatrixFromSize(VecLen(pts)), pts, 0, 1)

\* SymmetricMatrix::sum from position k of indexes on: indexes.map(|edge| self[edge]).sum()
RECURSIVE MatrixSumFrom(_, _, _)
MatrixSumFrom(self, indexes, k) ==
    IF k >= VecLen(indexes) THEN 0
    ELSE MatrixAt(self, indexes[k][1], indexes[k][2]) + MatrixSumFrom(self, indexes, k + 1)

\* SymmetricMatrix::sum
MatrixSum(self, indexes) == MatrixSumFrom(self, indexes, 0)

----------------------------------------------------------------------------
(* types/graph.rs *)

\* Graph::get_index
GraphGetIndex(self, x, y) == (x * self.size) + y

\* Index<(usize, usize)> for Graph: self[(x, y)]
GraphAt(self, x, y) == self.data[GraphGetIndex(self, x, y)]

\* IndexMut<(usize, usize)> for Graph: self[(x, y)] = value
GraphPut(self, x, y, value) == [self EXCEPT !.data[GraphGetIndex(self, x, y)] = value]

\* the index x * size + y of Index and IndexMut for Graph is not an index
\* of data: get(index).unwrap() and get_mut(index).unwrap() panic in a debug
\* build, get_unchecked and get_unchecked_mut are undefined in a release build
GraphIndexOutside(self, x, y) == ~(GraphGetIndex(self, x, y) < VecLen(self.data))

\* the two loops of Graph::new from the pair (i, j) on:
\* res[(i, j)] = dist; res[(j, i)] = dist
RECURSIVE GraphLoop(_, _, _, _)
GraphLoop(res, pts, i, j) ==
    IF i >= VecLen(pts) THEN res
    ELSE IF j >= VecLen(pts) THEN GraphLoop(res, pts, i + 1, i + 2)
    ELSE LET dist == Dist(pts[i], pts[j])
         IN  GraphLoop(GraphPut(GraphPut(res, i, j, dist), j, i, dist), pts, i, j + 1)

\* Graph::new (size > 0 is asserted)
GraphNew(pts) ==
    LET size == VecLen(pts)
    IN  GraphLoop([size |-> size, data |-> [k \in 0..((size * size) - 1) |-> 0]], pts, 0, 1)

\* the first loop of Graph::sum_edges from position k on
RECURSIVE GraphSumZip(_, _, _)
GraphSumZip(self, edges, k) ==
    IF k + 1 >= VecLen(edges) THEN 0
    ELSE GraphAt(self, edges[k], edges[k + 1]) + GraphSumZip(self, edges, k + 1)

\* assert_eq!(edges.len(), self.size) of Graph::sum_edges fails
GraphSumEdgesPanics(self, edges) == ~(VecLen(edges) = self.size)

\* GraphSumEdges without the edge from the last vertex back to the first
GraphSumEdgesOpen(self, edges) == GraphSumZip(self, edges, 0)

\* Graph::sum_edges (edges.len() = self.size is asserted)
GraphSumEdges(self, edges) ==
    GraphSumZip(self, edges, 0) + GraphAt(self, edges[VecLen(edges) - 1], edges[0])

----------------------------------------------------------------------------
(* types/gls.rs: nearest_neighbor *)

\* MinBy returning the position of the last of the minimal elements
MinByLast(self, i, remainders) ==
    CHOOSE r \in DOMAIN remainders :
        /\ \A q \in DOMAIN remainders :
              At(self, i, remainders[r]) <= At(self, i, remainders[q])
        /\ \A q \in DOMAIN remainders :
              q > r => At(self, i, remainders[q]) > At(self, i, remainders[r])

\* Iterator::min_by over remainders.enumerate(), comparing self[(i, n)]: the
\* position of the first of the minimal elements
MinBy(self, i, remainders) ==
    CHOOSE r \in DOMAIN remainders :
        /\ \A q \in DOMAIN remainders :
              At(self, i, remainders[r]) <= At(self, i, remainders[q])
        /\ \A q \in DOMAIN remainders :
              q < r => At(self, i, remainders[q]) > At(self, i, remainders[r])

\* Remove taking out the first element whatever the index
RemoveFirst(v, index) == [k \in 0..(VecLen(v) - 2) |-> v[k + 1]]

\* Vec::remove(index)
Remove(v, index) ==
    [k \in 0..(VecLen(v) - 2) |-> IF k < index THEN v[k] ELSE v[k + 1]]

\* the loop of nearest_neighbor from iteration i on
RECURSIVE NearestLoop(_, _, _, _)
NearestLoop(self, i, res, remainders) ==
    IF i >= self.size - 1 THEN res
    ELSE LET remainder == MinBy(self, i, remainders)
             neighbor == remainders[remainder]
         IN  NearestLoop(self, i + 1, [res EXCEPT ![i + 1] = neighbor],
                         Remove(remainders, remainder))

\* GuidedLocalSearch::nearest_neighbor
nearest_neighbor(self) ==
    LET res == NearestLoop(self, 0, [k \in 0..(self.size - 1) |-> 0],
                           [k \in 0..(self.size - 2) |-> k + 1])
    IN  RouteNew(res, sum_edges(self, res))

----------------------------------------------------------------------------
(* types/gls.rs: local_search_step and solve *)

\* CostChange leaving out the two edges at j
CostChangeOneEdge(self, candidate, i, j, old_penalty_factor, penalty_factor) ==
    LET len == VecLen(candidate.path)
        i_next == (i + 1) % len
    IN  At(self, candidate.path[i], candidate.path[j])
        - At(self, candidate.path[i], candidate.path[i_next])

\* CostChange with the other reconnection, {i, j+1}, {i+1, j}, as the added edges
CostChangeCross(self, candidate, i, j, old_penalty_factor, penalty_factor) ==
    LET len == VecLen(candidate.path)
        i_next == (i + 1) % len
        j_next == (j + 1) % len
    IN  (At(self, candidate.path[i], candidate.path[j_next])
         + At(self, candidate.path[i_next], candidate.path[j])
         + penalty_factor * (penalty(self, candidate.path[i], candidate.path[j_next])
                             + penalty(self, candidate.path[i_next], candidate.path[j])))
        - (At(self, candidate.path[i], candidate.path[i_next])
           + At(self, candidate.path[j], candidate.path[j_next])
           + old_penalty_factor * (penalty(self, candidate.path[i], candidate.path[i_next])
                                   + penalty(self, candidate.path[j], candidate.path[j_next])))

\* the cost change of the pair of route positions (i, j) as local_search_step
\* computes it: {i, i+1}, {j, j+1} -> {i, j}, {i+1, j+1}
\* The two factors are f64 in the source and each product is cast back to
\* i32; solve passes 0.0 for both, and the factors here are integers.
CostChange(self, candidate, i, j, old_penalty_factor, penalty_factor) ==
    LET len == VecLen(candidate.path)
        i_next == (i + 1) % len
        j_next == (j + 1) % len
        i_vertex == candidate.path[i]
        i_vertex_next == candidate.path[i_next]
        j_vertex == candidate.path[j]
        j_vertex_next == candidate.path[j_next]
        cost_change_decreased ==
            At(self, i_vertex, i_vertex_next)
            + At(self, j_vertex, j_vertex_next)
            + (old_penalty_factor
                * (penalty(self, i_vertex, i_vertex_next)
                   + penalty(self, j_vertex, j_vertex_next)))
        cost_change_increased ==
            At(self, i_vertex, j_vertex)
            + At(self, i_vertex_next, j_vertex_next)
            + (penalty_factor
                * (penalty(self, i_vertex, j_vertex)
                   + penalty(self, i_vertex_next, j_vertex_next)))
    IN  cost_change_increased - cost_change_decreased

\* Improves accepting every change of the cost
ImprovesNonZero(cost_change) == cost_change /= 0

\* Improves accepting the changes that raise the cost
ImprovesPositive(cost_change) == cost_change > 0

\* Improves accepting the changes that keep the cost as well
ImprovesOrKeeps(cost_change) == cost_change <= 0

\* if cost_change < 0 { ... }
Improves(cost_change) == cost_change < 0

\* ScanPairs with the inner loop starting one position earlier: skip(i + 1)
ScanPairsFromNext(len) == {pr \in (0..(len - 1)) \X (0..(len - 1)) : pr[2] >= pr[1] + 1}

\* the pairs <<a, b>> of positions of the neighbourhood that the two loops
\* visit: for i in 0..len, for j in neighborhood.iter().skip(i + 2)
ScanPairs(len) == {pr \in (0..(len - 1)) \X (0..(len - 1)) : pr[2] >= pr[1] + 2}

\* ScanBefore with the inner position compared first
ScanBeforeInner(pr, qr) == pr[2] < qr[2] \/ (pr[2] = qr[2] /\ pr[1] < qr[1])

\* the order in which the two loops visit the pairs
ScanBefore(pr, qr) == pr[1] < qr[1] \/ (pr[1] = qr[1] /\ pr[2] < qr[2])

\* the visited pairs whose twist lowers the cost
ImprovingPairs(self, candidate, order, old_penalty_factor, penalty_factor) ==
    {pr \in ScanPairs(VecLen(order)) :
        Improves(CostChange(self, candidate, order[pr[1]], order[pr[2]],
                            old_penalty_factor, penalty_factor))}

\* GuidedLocalSearch::local_search_step: the candidate after the step (order is its
\* parameter neighborhood), the
\* returned cost change and the arguments of the twist it applied
local_search_step(self, candidate, order, old_penalty_factor, penalty_factor) ==
    LET improving == ImprovingPairs(self, candidate, order,
                                    old_penalty_factor, penalty_factor)
    IN  IF improving = {}
        THEN [candidate |-> candidate, change |-> 0, twisted |-> FALSE, i |-> 0, j |-> 0]
        ELSE LET first == CHOOSE pr \in improving :
                              \A qr \in improving : qr = pr \/ ScanBefore(pr, qr)
                 i == order[first[1]]
                 j == order[first[2]]
                 i_next == (i + 1) % VecLen(candidate.path)
                 cost_change == CostChange(self, candidate, i, j,
                                           old_penalty_factor, penalty_factor)
             IN  [candidate |-> RouteTwist(candidate, i_next, j, cost_change),
                  change |-> cost_change, twisted |-> TRUE, i |-> i_next, j |-> j]

\* the largest element of a non-empty set of integers
SetMax(S) == CHOOSE m \in S : \A x \in S : x <= m

\* MaxUtilityOf over the edges of the open path, the closing edge left out
MaxUtilityOfOpen(self, r) ==
    SetMax({At(self, r.path[k], r.path[k + 1])
                \div (1 + penalty(self, r.path[k], r.path[k + 1])) :
            k \in 0..(VecLen(r.path) - 2)})

\* solve's max_utility: route.edges().map(|v| self[v] / (1 + self.penalty(v))).max()
MaxUtilityOf(self, r) ==
    LET edges == Edges(r.path)
    IN  SetMax({At(self, edges[k][1], edges[k][2])
                    \div (1 + penalty(self, edges[k][1], edges[k][2])) : k \in DOMAIN edges})

----------------------------------------------------------------------------
(* The positions, coordinates and flat indexes that the accesses of          *)
(* nearest_neighbor, sum_edges, local_search_step and twist use              *)

\* the matrix coordinates that the comparisons of nearest_neighbor read from
\* iteration i on: self[(i, n)] for the vertices n of remainders; min_by calls
\* the comparison between two elements, so nothing is read for one remainder
RECURSIVE NearestCoords(_, _, _)
NearestCoords(self, i, remainders) ==
    IF i >= self.size - 1 THEN {}
    ELSE (IF VecLen(remainders) >= 2
          THEN {<<i, remainders[r]>> : r \in DOMAIN remainders}
          ELSE {})
            \cup NearestCoords(self, i + 1, Remove(remainders, MinBy(self, i, remainders)))

\* the positions of res that nearest_neighbor writes: res[i + 1]
NearestPositions(self) == {i + 1 : i \in 0..(self.size - 2)}

\* the positions of edges that sum_edges reads: the two sides of the zip,
\* then edges[edges.len() - 1] and edges[0]
SumEdgesPositions(edges) ==
    {k : k \in 0..(VecLen(edges) - 2)} \cup {k + 1 : k \in 0..(VecLen(edges) - 2)}
        \cup {VecLen(edges) - 1, 0}

\* the matrix coordinates that sum_edges reads
SumEdgesCoords(edges) ==
    {<<edges[k], edges[k + 1]>> : k \in 0..(VecLen(edges) - 2)}
        \cup {<<edges[VecLen(edges) - 1], edges[0]>>}

\* StepPositions without the wrap of the two next positions
StepPositionsNoWrap(len, i, j) == {i, i + 1, j, j + 1}

\* the positions of candidate that local_search_step reads for the pair
\* (i, j): i, i_next, j, j_next
StepPositions(len, i, j) == {i, (i + 1) % len, j, (j + 1) % len}

\* the matrix coordinates that local_search_step reads, in data and in
\* penalty, for the vertices found at these positions
StepCoords(i_vertex, i_vertex_next, j_vertex, j_vertex_next) ==
    {<<i_vertex, i_vertex_next>>, <<j_vertex, j_vertex_next>>,
     <<i_vertex, j_vertex>>, <<i_vertex_next, j_vertex_next>>}

\* the positions swapped by the branch i <= j of twist
RECURSIVE TwistInsidePositions(_, _)
TwistInsidePositions(i, j) ==
    IF i < j THEN {i, j} \cup TwistInsidePositions(i + 1, j - 1) ELSE {}

\* the positions swapped by the branch i > j of twist
RECURSIVE TwistOutsidePositions(_, _, _, _)
TwistOutsidePositions(len, i, j, middle) ==
    {i, j} \cup (IF i = middle THEN {}
                 ELSE TwistOutsidePositions(len, (i + 1) % len, (j + len - 1) % len, middle))

\* the positions swapped by twist(i, j) on a vector of len elements
TwistPositions(len, i, j) ==
    IF i <= j THEN TwistInsidePositions(i, j)
    ELSE TwistOutsidePositions(len, i, j, TwistMiddle(len, i, j))

----------------------------------------------------------------------------
(* The solver: GuidedLocalSearch::new, then solve step by step *)

NoTwist == [i |-> 0, j |-> 0, before |-> <<>>]
NoRoute == [path |-> <<>>, cost |-> 0]
NoPath == <<>>
NoGls == from_size(0)
NoPoints == <<>>
NoMatrix == MatrixFromSize(0)
NoGraph == [size |-> 0, data |-> <<>>]
NoOut == [op |-> "none"]

Coords == 0..MaxCoord
Points == [x : Coords, y : Coords]

\* the state after GuidedLocalSearch::new(points), for up to max points
InitUpTo(max) ==
    /\ \E n \in 2..max : \E points \in [0..(n - 1) -> Points] : gls = New(points)
    /\ neighborhood = <<>>
    /\ route = NoRoute
    /\ path = NoPath
    /\ last = NoTwist
    /\ nnCost = -1
    /\ lsCost = -1
    /\ maxUtility = -1
    /\ pc = "solve"
    /\ debug = FALSE
    /\ input = NoPoints
    /\ matrix = NoMatrix
    /\ graph = NoGraph
    /\ out = NoOut

Init == InitUpTo(MaxN)

\* neighborhood.shuffle(&mut rng): the seed decides the order, any permutation
Shuffle ==
    /\ pc = "solve"
    /\ \E order \in Perms(gls.size) : neighborhood' = order
    /\ pc' = "nearest_neighbor"
    /\ UNCHANGED <<gls, route, path, last, nnCost, lsCost, maxUtility>>
    /\ UNCHANGED harness

\* let mut route = self.nearest_neighbor();
NearestNeighbor ==
    /\ pc = "nearest_neighbor"
    /\ LET res == nearest_neighbor(gls)
       IN  IF RouteNewPanics(debug, res.path)
           THEN /\ pc' = "panic"
                /\ UNCHANGED <<route, nnCost>>
           ELSE /\ route' = res
                /\ nnCost' = res.cost
                /\ pc' = "local_search"
    /\ UNCHANGED <<gls, neighborhood, path, last, lsCost, maxUtility>>
    /\ UNCHANGED harness

\* one iteration of the loop of local_search(&mut route, &neighborhood, 0.0, 0.0):
\* a local_search_step, and the break when it returns 0
LocalSearchStep ==
    /\ pc = "local_search"
    /\ LET step == local_search_step(gls, route, neighborhood, 0, 0)
       IN  /\ route' = step.candidate
           /\ last' = IF step.twisted
                      THEN [i |-> step.i, j |-> step.j, before |-> route.path]
                      ELSE last
           /\ pc' = IF step.change = 0 THEN "max_utility" ELSE "local_search"
           /\ lsCost' = IF step.change = 0 THEN route.cost ELSE lsCost
    /\ UNCHANGED <<gls, neighborhood, path, nnCost, maxUtility>>
    /\ UNCHANGED harness

\* the rest of solve: max_utility is computed and the route is returned
MaxUtility ==
    /\ pc = "max_utility"
    /\ maxUtility' = MaxUtilityOf(gls, route)
    /\ pc' = "done"
    /\ UNCHANGED <<gls, neighborhood, route, path, last, nnCost, lsCost>>
    /\ UNCHANGED harness

Next ==
    \/ Shuffle
    \/ NearestNeighbor
    \/ LocalSearchStep
    \/ MaxUtility

Spec == Init /\ [][Next]_vars

\* solve is one uninterrupted computation: every step that can be taken is taken
LiveInit == InitUpTo(MaxLiveN)

LiveSpec == LiveInit /\ [][Next]_vars /\ WF_vars(Next)

----------------------------------------------------------------------------
(* local_search on its own: any candidate route, any neighbourhood order *)

\* the state at the call gls.local_search(&mut route, &neighborhood, 0.0, 0.0)
\* for a route whose cost is the sum of its edges
SearchInit ==
    /\ gls \in {New(points) : points \in UNION {[0..(n - 1) -> Points] : n \in 2..MaxSearchN}}
    /\ \E p \in Perms(gls.size) : route = RouteNew(p, sum_edges(gls, p))
    /\ neighborhood \in Perms(gls.size)
    /\ path = NoPath
    /\ last = NoTwist
    /\ nnCost = route.cost
    /\ lsCost = -1
    /\ maxUtility = -1
    /\ pc = "local_search"
    /\ debug = FALSE
    /\ input = NoPoints
    /\ matrix = NoMatrix
    /\ graph = NoGraph
    /\ out = NoOut

\* the steps of the local search, then the largest utility of the route
SearchNext ==
    \/ LocalSearchStep
    \/ MaxUtility

SearchSpec == SearchInit /\ [][SearchNext]_vars

\* local_search called with the sequential route of a search over three to
\* MaxScanN points and with any order of the positions
ScanInit ==
    /\ gls \in {New(points) : points \in UNION {[0..(n - 1) -> [x : 0..MaxScanCoord, y : 0..MaxScanCoord]] :
                                                  n \in 3..MaxScanN}}
    /\ route = sequential_route(gls)
    /\ neighborhood \in Perms(gls.size)
    /\ path = NoPath
    /\ last = NoTwist
    /\ nnCost = route.cost
    /\ lsCost = -1
    /\ maxUtility = -1
    /\ pc = "local_search"
    /\ debug = FALSE
    /\ input = NoPoints
    /\ matrix = NoMatrix
    /\ graph = NoGraph
    /\ out = NoOut

ScanSpec == ScanInit /\ [][SearchNext]_vars

----------------------------------------------------------------------------
(* The constructors of the distance matrix, and solve from the points on *)

\* the vectors of up to max points
PointVecs(max) == UNION {[0..(n - 1) -> Points] : n \in 0..max}

\* the state before any constructor is called on the points
InitBefore(max) ==
    /\ pc = "new"
    /\ debug \in BOOLEAN
    /\ input \in PointVecs(max)
    /\ gls = NoGls
    /\ matrix = NoMatrix
    /\ graph = NoGraph
    /\ out = NoOut
    /\ neighborhood = <<>>
    /\ route = NoRoute
    /\ path = NoPath
    /\ last = NoTwist
    /\ nnCost = -1
    /\ lsCost = -1
    /\ maxUtility = -1

\* GuidedLocalSearch::new(&points): assert!(size > 0), then the matrix
GlsNew ==
    /\ pc = "new"
    /\ IF ~(VecLen(input) > 0)
       THEN /\ pc' = "panic"
            /\ UNCHANGED gls
       ELSE /\ gls' = New(input)
            /\ pc' = "solve"
    /\ UNCHANGED <<neighborhood, route, path, last, nnCost, lsCost, maxUtility>>
    /\ UNCHANGED harness

\* SymmetricMatrix::from_euclidean_coords(&points): assert!(size > 0), then the matrix
MatrixNew ==
    /\ pc \in {"new", "solve"}
    /\ matrix = NoMatrix
    /\ IF ~(VecLen(input) > 0)
       THEN /\ pc' = "panic"
            /\ UNCHANGED matrix
       ELSE /\ matrix' = from_euclidean_coords(input)
            /\ UNCHANGED pc
    /\ UNCHANGED <<gls, neighborhood, route, path, last, nnCost, lsCost, maxUtility>>
    /\ UNCHANGED <<debug, input, graph, out>>

\* Graph::new(&points): assert!(size > 0), then the matrix
GraphCreate ==
    /\ pc \in {"new", "solve"}
    /\ graph = NoGraph
    /\ IF ~(VecLen(input) > 0)
       THEN /\ pc' = "panic"
            /\ UNCHANGED graph
       ELSE /\ graph' = GraphNew(input)
            /\ UNCHANGED pc
    /\ UNCHANGED <<gls, neighborhood, route, path, last, nnCost, lsCost, maxUtility>>
    /\ UNCHANGED <<debug, input, matrix, out>>

\* GuidedLocalSearch::new, then solve
BuildInit == InitBefore(MaxBuildN)

BuildNext ==
    \/ GlsNew
    \/ Next

BuildSpec == BuildInit /\ [][BuildNext]_vars

\* the three constructors on the same points
CoordInit == InitBefore(MaxPoints)

CoordNext ==
    \/ GlsNew
    \/ MatrixNew
    \/ GraphCreate

CoordSpec == CoordInit /\ [][CoordNext]_vars

----------------------------------------------------------------------------
(* set, the single writes of IndexMut and the sums on a SymmetricMatrix, a  *)
(* GuidedLocalSearch and a Graph that hold the same entries at the start    *)

\* the data of simple_matrix() and of the two simple_graph() of the tests
SimpleData == Vec(<<0, 1, 2, 5,
                    1, 0, 7, 4,
                    2, 7, 0, 1,
                    5, 4, 1, 0>>)

\* the matrices at the start: from_size(n), from_euclidean_coords of one or
\* two points, and the matrix of the tests
MatrixInputs ==
    {MatrixFromSize(n) : n \in 1..MaxMatN}
    \cup {from_euclidean_coords(pts) : pts \in (PointVecs(2) \ PointVecs(0))}
    \cup {[size |-> SimpleSize, data |-> SimpleData]}

\* the vertex slices summed: every slice of size vertices, one that is too
\* short and one that is too long
SumPaths(size) ==
    [0..(size - 1) -> 0..(size - 1)]
    \cup {Sequential(size - 1), [k \in 0..size |-> 0]}

MatrixInit ==
    /\ pc = "matrix"
    /\ \E m \in MatrixInputs :
          /\ matrix = m
          /\ gls = from_data(m.size, m.data)
          /\ graph = [size |-> m.size, data |-> m.data]
    /\ debug \in BOOLEAN
    /\ input = NoPoints
    /\ out = NoOut
    /\ neighborhood = <<>>
    /\ route = NoRoute
    /\ path = NoPath
    /\ last = NoTwist
    /\ nnCost = -1
    /\ lsCost = -1
    /\ maxUtility = -1

\* the writes of a run are counted: at most MaxSets of them
MayWrite == out.op \in {"none", "set", "gls.index_mut", "graph.index_mut"}
                /\ (out.op /= "none" => out.nth < MaxSets)

\* the number of the write that is made now
NextNth == IF out.op = "none" THEN 1 ELSE out.nth + 1

\* matrix.set(x, y, value); a coordinate may be the size, which is one too much
SetCall ==
    /\ pc = "matrix"
    /\ matrix.size <= MaxMatN
    /\ MayWrite
    /\ \E x, y \in 0..matrix.size : \E value \in 0..MaxEntry :
          /\ out' = [op |-> "set", x |-> x, y |-> y, value |-> value, before |-> matrix,
                     nth |-> NextNth]
          /\ IF MatrixSetPanics(debug, matrix, x, y)
             THEN /\ matrix' = MatrixSetPartial(debug, matrix, x, y, value)
                  /\ pc' = "panic"
             ELSE /\ matrix' = MatrixSet(matrix, x, y, value)
                  /\ pc' = pc
    /\ UNCHANGED <<gls, neighborhood, route, path, last, nnCost, lsCost, maxUtility>>
    /\ UNCHANGED <<debug, input, graph>>

\* what a release build can leave after a write through get_unchecked_mut at
\* an index outside the data of the object written (undefined behaviour): the
\* process is killed, or the call returns and the three objects are as
\* before, or the call returns and the value is in an entry of another vector
\* of the heap.  others is the set of the <<gls, graph, matrix>> with such an
\* entry written
UndefinedWrite(others) ==
    {[gls |-> gls, graph |-> graph, matrix |-> matrix, pc |-> "died"],
     [gls |-> gls, graph |-> graph, matrix |-> matrix, pc |-> "undefined"]}
    \cup {[gls |-> o[1], graph |-> o[2], matrix |-> o[3], pc |-> "undefined"] : o \in others}

\* gls[(x, y)] = value; a coordinate may be the size, which is one too much.
\* A debug build panics at the debug_assert of get_index when a coordinate is
\* not below the size.  A release build writes the entry of data at
\* x * size + y when data has it; when it has not, the write is undefined
GlsIndexMut ==
    /\ pc = "matrix"
    /\ gls.size <= MaxMatN
    /\ MayWrite
    /\ \E x, y \in 0..gls.size : \E value \in 0..MaxEntry :
          /\ out' = [op |-> "gls.index_mut", x |-> x, y |-> y, value |-> value,
                     before |-> gls, nth |-> NextNth]
          /\ IF GlsIndexPanics(debug, gls, x, y)
             THEN /\ pc' = "panic"
                  /\ UNCHANGED <<gls, graph, matrix>>
             ELSE IF GlsIndexUndefined(gls, x, y)
             THEN \E after \in UndefinedWrite(
                        {<<[gls EXCEPT !.penalty[k] = value], graph, matrix>> :
                            k \in DOMAIN gls.penalty}
                        \cup {<<gls, [graph EXCEPT !.data[k] = value], matrix>> :
                                k \in DOMAIN graph.data}
                        \cup {<<gls, graph, [matrix EXCEPT !.data[k] = value]>> :
                                k \in DOMAIN matrix.data}) :
                      /\ gls' = after.gls
                      /\ graph' = after.graph
                      /\ matrix' = after.matrix
                      /\ pc' = after.pc
             ELSE /\ gls' = GlsPut(gls, x, y, value)
                  /\ pc' = pc
                  /\ UNCHANGED <<graph, matrix>>
    /\ UNCHANGED <<neighborhood, route, path, last, nnCost, lsCost, maxUtility>>
    /\ UNCHANGED <<debug, input>>

\* graph[(x, y)] = value; a coordinate may be the size.  The entry of data at
\* x * size + y is written when data has it.  When it has not, a debug build
\* panics at get_mut(index).unwrap() and the write of a release build is
\* undefined
GraphIndexMut ==
    /\ pc = "matrix"
    /\ graph.size <= MaxMatN
    /\ MayWrite
    /\ \E x, y \in 0..graph.size : \E value \in 0..MaxEntry :
          /\ out' = [op |-> "graph.index_mut", x |-> x, y |-> y, value |-> value,
                     before |-> graph, nth |-> NextNth]
          /\ IF ~GraphIndexOutside(graph, x, y)
             THEN /\ graph' = GraphPut(graph, x, y, value)
                  /\ pc' = pc
                  /\ UNCHANGED <<gls, matrix>>
             ELSE IF debug
             THEN /\ pc' = "panic"
                  /\ UNCHANGED <<gls, graph, matrix>>
             ELSE \E after \in UndefinedWrite(
                        {<<[gls EXCEPT !.data[k] = value], graph, matrix>> :
                            k \in DOMAIN gls.data}
                        \cup {<<[gls EXCEPT !.penalty[k] = value], graph, matrix>> :
                                k \in DOMAIN gls.penalty}
                        \cup {<<gls, graph, [matrix EXCEPT !.data[k] = value]>> :
                                k \in DOMAIN matrix.data}) :
                      /\ gls' = after.gls
                      /\ graph' = after.graph
                      /\ matrix' = after.matrix
                      /\ pc' = after.pc
    /\ UNCHANGED <<neighborhood, route, path, last, nnCost, lsCost, maxUtility>>
    /\ UNCHANGED <<debug, input>>

\* a sum changes none of the three objects: a run is a sequence of set calls
\* followed by one sum
SumPending == out.op \in {"none", "set", "gls.index_mut", "graph.index_mut"}

\* gls.sum_edges(&edges)
GlsSumEdgesCall ==
    /\ pc = "matrix"
    /\ SumPending
    /\ \E edges \in SumPaths(gls.size) :
          out' = IF SumEdgesPanics(gls, edges)
                 THEN [op |-> "gls.sum_edges", path |-> edges, panic |-> TRUE, value |-> 0]
                 ELSE [op |-> "gls.sum_edges", path |-> edges, panic |-> FALSE,
                       value |-> sum_edges(gls, edges)]
    /\ UNCHANGED <<gls, neighborhood, route, path, last, nnCost, lsCost, maxUtility, pc>>
    /\ UNCHANGED <<debug, input, matrix, graph>>

\* graph.sum_edges(&edges)
GraphSumEdgesCall ==
    /\ pc = "matrix"
    /\ SumPending
    /\ \E edges \in SumPaths(graph.size) :
          out' = IF GraphSumEdgesPanics(graph, edges)
                 THEN [op |-> "graph.sum_edges", path |-> edges, panic |-> TRUE, value |-> 0]
                 ELSE [op |-> "graph.sum_edges", path |-> edges, panic |-> FALSE,
                       value |-> GraphSumEdges(graph, edges)]
    /\ UNCHANGED <<gls, neighborhood, route, path, last, nnCost, lsCost, maxUtility, pc>>
    /\ UNCHANGED <<debug, input, matrix, graph>>

\* matrix.sum(Path(edges).edges()), for a slice of at least one vertex
MatrixSumCall ==
    /\ pc = "matrix"
    /\ SumPending
    /\ \E edges \in SumPaths(matrix.size) :
          /\ VecLen(edges) > 0
          /\ out' = [op |-> "matrix.sum", path |-> edges, panic |-> FALSE,
                     value |-> MatrixSum(matrix, PathEdges(edges))]
    /\ UNCHANGED <<gls, neighborhood, route, path, last, nnCost, lsCost, maxUtility, pc>>
    /\ UNCHANGED <<debug, input, matrix, graph>>

MatrixNext ==
    \/ SetCall
    \/ GlsIndexMut
    \/ GraphIndexMut
    \/ GlsSumEdgesCall
    \/ GraphSumEdgesCall
    \/ MatrixSumCall

MatrixSpec == MatrixInit /\ [][MatrixNext]_vars

----------------------------------------------------------------------------
(* Path::twist and Route::twist on their own: any path, any positions *)

\* the paths twisted: every permutation of 0..n-1 up to MaxLen vertices, and
\* the path of the twist tests
TwistInputs == (UNION {Perms(n) : n \in 2..MaxLen}) \cup {Sequential(FixtureLen)}

\* a path longer than MaxLen is twisted once
MayTwist(v) == VecLen(v) <= MaxLen \/ last = NoTwist

TwistInit ==
    /\ pc \in {"path", "route"}
    /\ \E p \in TwistInputs :
          /\ path = IF pc = "path" THEN p ELSE NoPath
          /\ route = IF pc = "route" THEN RouteNew(p, 0) ELSE NoRoute
    /\ gls = NoGls
    /\ neighborhood = <<>>
    /\ last = NoTwist
    /\ nnCost = -1
    /\ lsCost = -1
    /\ maxUtility = -1
    /\ debug = FALSE
    /\ input = NoPoints
    /\ matrix = NoMatrix
    /\ graph = NoGraph
    /\ out = NoOut

\* path.twist(i, j)
TwistPath ==
    /\ pc = "path"
    /\ MayTwist(path)
    /\ \E i, j \in DOMAIN path :
          /\ path' = PathTwist(path, i, j)
          /\ last' = [i |-> i, j |-> j, before |-> path]
    /\ UNCHANGED <<gls, neighborhood, route, nnCost, lsCost, maxUtility, pc>>
    /\ UNCHANGED harness

\* route.twist(i, j, cost_change)
TwistRoute ==
    /\ pc = "route"
    /\ MayTwist(route.path)
    /\ \E i, j \in DOMAIN route.path : \E cost_change \in -1..1 :
          /\ route.cost + cost_change \in (-MaxCost)..MaxCost
          /\ route' = RouteTwist(route, i, j, cost_change)
          /\ last' = [i |-> i, j |-> j, before |-> route.path]
    /\ UNCHANGED <<gls, neighborhood, path, nnCost, lsCost, maxUtility, pc>>
    /\ UNCHANGED harness

TwistNext ==
    \/ TwistPath
    \/ TwistRoute

TwistSpec == TwistInit /\ [][TwistNext]_vars

----------------------------------------------------------------------------
(* Path::edges, Route::edges and Path::interpolate_edges on their own *)

\* path.edges()
PathEdgesCall ==
    /\ pc = "path"
    /\ out' = [op |-> "edges", value |-> PathEdges(path)]
    /\ UNCHANGED <<gls, neighborhood, route, path, last, nnCost, lsCost, maxUtility, pc>>
    /\ UNCHANGED <<debug, input, matrix, graph>>

\* route.edges()
RouteEdgesCall ==
    /\ pc = "route"
    /\ out' = [op |-> "edges", value |-> RouteEdges(route)]
    /\ UNCHANGED <<gls, neighborhood, route, path, last, nnCost, lsCost, maxUtility, pc>>
    /\ UNCHANGED <<debug, input, matrix, graph>>

\* path.interpolate_edges(skip)
InterpolateEdgesCall ==
    /\ pc = "path"
    /\ \E skip \in 0..MaxLen :
          out' = [op |-> "interpolate_edges", skip |-> skip,
                  value |-> interpolate_edges(path, skip)]
    /\ UNCHANGED <<gls, neighborhood, route, path, last, nnCost, lsCost, maxUtility, pc>>
    /\ UNCHANGED <<debug, input, matrix, graph>>

\* the sequences of the tests of check_hamiltonian, and every sequence of
\* two to MaxHamLen entries drawn from 0..length (length itself is not a
\* position of visited)
HamiltonianInputs ==
    (UNION {[0..(n - 1) -> 0..n] : n \in 2..MaxHamLen})
        \cup {Sequential(FixtureLen),
               Vec(<<1, 1, 2, 3, 4, 5, 6, 7>>),
               Vec(<<0, 1, 2, 3, 4, 2, 6, 7>>),
               Vec(<<0, 1, 2, 3, 4, 5, 6, 0>>)}

HamiltonianInit ==
    /\ pc \in {"path", "route"}
    /\ \E p \in HamiltonianInputs :
          /\ path = IF pc = "path" THEN p ELSE NoPath
          /\ route = IF pc = "route" THEN RouteNew(p, 0) ELSE NoRoute
    /\ gls = NoGls
    /\ neighborhood = <<>>
    /\ last = NoTwist
    /\ nnCost = -1
    /\ lsCost = -1
    /\ maxUtility = -1
    /\ debug \in BOOLEAN
    /\ input = NoPoints
    /\ matrix = NoMatrix
    /\ graph = NoGraph
    /\ out = NoOut

\* path[index] = value, the value being a vertex or the length of the path.
\* With index = len the debug build panics at the debug_assert; the release
\* build writes through get_unchecked_mut outside the vector, which is
\* undefined behaviour: the call returns with the path as it was, or the
\* process is killed.
\* A path longer than MaxHamLen is written once.
PathIndexMut ==
    /\ pc = "path"
    /\ VecLen(path) <= MaxHamLen \/ out = NoOut
    /\ \E index \in 0..VecLen(path) : \E value \in 0..VecLen(path) :
          IF index < VecLen(path)
          THEN /\ path' = PathPut(path, index, value)
               /\ pc' = pc
               /\ out' = [op |-> "index_mut", index |-> index, value |-> value]
          ELSE /\ path' = path
               /\ pc' \in IF PathIndexPanics(debug, path, index)
                           THEN {"panic"}
                           ELSE {"undefined", "died"}
               /\ out' = [op |-> "index_mut", index |-> index, value |-> value]
    /\ UNCHANGED <<gls, neighborhood, route, last, nnCost, lsCost, maxUtility>>
    /\ UNCHANGED <<debug, input, matrix, graph>>

\* path.check_hamiltonian()
PathCheckHamiltonianCall ==
    /\ pc = "path"
    /\ out' = [op |-> "check_hamiltonian", value |-> PathCheckHamiltonian(path)]
    /\ UNCHANGED <<gls, neighborhood, route, path, last, nnCost, lsCost, maxUtility, pc>>
    /\ UNCHANGED <<debug, input, matrix, graph>>

\* path.is_hamiltonian(); the panic of check_hamiltonian is its panic
PathIsHamiltonianCall ==
    /\ pc = "path"
    /\ out' = [op |-> "is_hamiltonian",
               panic |-> PathCheckHamiltonian(path) = IndexPanic,
               value |-> PathIsHamiltonian(path)]
    /\ UNCHANGED <<gls, neighborhood, route, path, last, nnCost, lsCost, maxUtility, pc>>
    /\ UNCHANGED <<debug, input, matrix, graph>>

\* route.check_hamiltonian()
RouteCheckHamiltonianCall ==
    /\ pc = "route"
    /\ out' = [op |-> "check_hamiltonian", value |-> RouteCheckHamiltonian(route)]
    /\ UNCHANGED <<gls, neighborhood, route, path, last, nnCost, lsCost, maxUtility, pc>>
    /\ UNCHANGED <<debug, input, matrix, graph>>

\* route.is_hamiltonian()
RouteIsHamiltonianCall ==
    /\ pc = "route"
    /\ out' = [op |-> "is_hamiltonian",
               panic |-> RouteCheckHamiltonian(route) = IndexPanic,
               value |-> RouteIsHamiltonian(route)]
    /\ UNCHANGED <<gls, neighborhood, route, path, last, nnCost, lsCost, maxUtility, pc>>
    /\ UNCHANGED <<debug, input, matrix, graph>>

HamiltonianNext ==
    \/ PathIndexMut
    \/ PathCheckHamiltonianCall
    \/ PathIsHamiltonianCall
    \/ RouteCheckHamiltonianCall
    \/ RouteIsHamiltonianCall

HamiltonianSpec == HamiltonianInit /\ [][HamiltonianNext]_vars

PathInit == TwistInit

PathNext ==
    \/ PathEdgesCall
    \/ RouteEdgesCall
    \/ InterpolateEdgesCall

PathSpec == PathInit /\ [][PathNext]_vars

----------------------------------------------------------------------------
(* Notions the properties are stated with *)

\* v holds every vertex of 0..n-1 exactly once
IsPermutation(v, n) ==
    /\ DOMAIN v = 0..(n - 1)
    /\ \A x \in 0..(n - 1) : Cardinality({k \in DOMAIN v : v[k] = x}) = 1

\* the sum of f over the set S of arguments
RECURSIVE SumOver(_, _)
SumOver(f, S) ==
    IF S = {} THEN 0
    ELSE LET x == CHOOSE y \in S : TRUE IN f[x] + SumOver(f, S \ {x})

\* the pure distance of the cycle p: the sum of distance[p[k], p[(k+1) mod N]]
TourCost(self, p) ==
    LET n == VecLen(p)
    IN  SumOver([k \in DOMAIN p |-> self.data[(p[k] * self.size) + p[(k + 1) % n]]],
                DOMAIN p)

\* what the 2-opt move of the route positions i, j adds to the pure distance:
\* the edges (p[i], p[i+1]), (p[j], p[j+1]) become (p[i], p[j]), (p[i+1], p[j+1])
MoveGain(self, p, i, j) ==
    LET n == VecLen(p)
        d(a, b) == self.data[(a * self.size) + b]
    IN  (d(p[i], p[j]) + d(p[(i + 1) % n], p[(j + 1) % n]))
        - (d(p[i], p[(i + 1) % n]) + d(p[j], p[(j + 1) % n]))

\* no 2-opt move of two different positions lowers the pure distance of p
IsLocalMinimum(self, p) ==
    \A i, j \in DOMAIN p : i /= j => MoveGain(self, p, i, j) >= 0

\* the vertices not among tour[0..=i]
NotPlaced(tour, i) == (DOMAIN tour) \ {tour[k] : k \in 0..i}

\* the position of the vertex w in the list of the vertices not among
\* tour[0..=i]: the list starts as 1, ..., N-1 and loses the placed vertices, so
\* it is in rising order
RemainingIndex(tour, i, w) == Cardinality({u \in NotPlaced(tour, i) : u < w})

\* the vertex placed at i + 1 is the closest one to row i of the matrix among
\* those not yet placed, the earliest of the list among equally close ones
IsNearestChoice(self, tour, i) ==
    LET v == tour[i + 1]
        d(w) == self.data[(i * self.size) + w]
    IN  /\ v \in NotPlaced(tour, i)
        /\ \A w \in NotPlaced(tour, i) :
              /\ d(v) <= d(w)
              /\ d(w) = d(v) => RemainingIndex(tour, i, v) <= RemainingIndex(tour, i, w)

\* the pairs of positions <<i, j>> of a vector of n elements with
\* i + 1 + skip <= j <= n - 1
SkipPairs(n, skip) ==
    {pr \in (0..(n - 1)) \X (0..(n - 1)) : (pr[1] + 1) + skip <= pr[2]}

\* the number of pairs of S before pr in the lexicographic order
LexRank(S, pr) ==
    Cardinality({qr \in S : qr[1] < pr[1] \/ (qr[1] = pr[1] /\ qr[2] < pr[2])})

\* the path of the examples of edges and interpolate_edges
ExamplePath == Vec(<<2, 0, 1, 3>>)

\* the path p rotated by s positions
Rotate(p, s) == [k \in DOMAIN p |-> p[(k + s) % VecLen(p)]]

\* the latest call was one of the three sums and it returned
SumReturned ==
    out.op \in {"gls.sum_edges", "graph.sum_edges", "matrix.sum"} /\ ~out.panic

\* the object whose sum the latest call has computed
Summed ==
    IF out.op = "gls.sum_edges" THEN [size |-> gls.size, data |-> gls.data]
    ELSE IF out.op = "graph.sum_edges" THEN [size |-> graph.size, data |-> graph.data]
    ELSE matrix

\* the sum that the latest call computes, on the path p
SameSum(p) ==
    IF out.op = "gls.sum_edges" THEN sum_edges(gls, p)
    ELSE IF out.op = "graph.sum_edges" THEN GraphSumEdges(graph, p)
    ELSE MatrixSum(matrix, PathEdges(p))

\* the entries (i, j) and (j, i) of the square matrix data are equal
IsSymmetric(size, data) ==
    \A i, j \in 0..(size - 1) : data[(i * size) + j] = data[(j * size) + i]

\* the square of the euclidean distance of the points i and j of the input
SquaredDistance(i, j) ==
    ((input[i].x - input[j].x) * (input[i].x - input[j].x))
    + ((input[i].y - input[j].y) * (input[i].y - input[j].y))

\* r is the integer part of the square root of n
IsIntegerPartOfSqrt(r, n) == r >= 0 /\ r * r <= n /\ n < (r + 1) * (r + 1)

\* size and data are those of the matrix of the integer distances of the input
IsDistanceMatrix(size, data) ==
    /\ size = VecLen(input)
    /\ DOMAIN data = 0..((size * size) - 1)
    /\ \A i, j \in 0..(size - 1) :
          /\ IsIntegerPartOfSqrt(data[(i * size) + j], SquaredDistance(i, j))
          /\ data[(i * size) + j] = data[(j * size) + i]
    /\ \A i \in 0..(size - 1) : data[(i * size) + i] = 0

\* the pairs <<a, b>> of positions of the order, b >= a + 2, whose route
\* positions order[a], order[b] give a 2-opt move that lowers the distance of p
ImprovingOrderPairs(self, p, order) ==
    {pr \in (DOMAIN order) \X (DOMAIN order) :
        /\ pr[2] >= pr[1] + 2
        /\ MoveGain(self, p, order[pr[1]], order[pr[2]]) < 0}

\* pr comes before qr, or is qr, in the lexicographic order
LexLeq(pr, qr) == pr[1] < qr[1] \/ (pr[1] = qr[1] /\ pr[2] <= qr[2])

\* the penalised cost of the edge (x, y): distance + lambda * penalty
PenalisedCost(self, lambda, x, y) == self.data[x * self.size + y] + lambda * self.penalty[x * self.size + y]

\* the change of the penalised cost when the tour edges after the positions i
\* and j of p are replaced by the edges (p[i], p[j]) and (p[i+1], p[j+1])
PenalisedDelta(self, lambda, p, i, j) ==
    LET n == VecLen(p)
        a == p[i]
        an == p[(i + 1) % n]
        b == p[j]
        bn == p[(j + 1) % n]
    IN  (PenalisedCost(self, lambda, a, b) + PenalisedCost(self, lambda, an, bn))
        - (PenalisedCost(self, lambda, a, an) + PenalisedCost(self, lambda, b, bn))

\* the positions i and j of a tour of n vertices are cyclic neighbours
CyclicNeighbours(n, i, j) == j = (i + 1) % n \/ i = (j + 1) % n

\* the utility of the tour edge that leaves position k of p: the integer
\* part of distance / (1 + penalty)
UtilityDivisor(self, p, k) ==
    1 + self.penalty[(p[k] * self.size) + p[(k + 1) % VecLen(p)]]

Utility(self, p, k) ==
    LET d == self.data[(p[k] * self.size) + p[(k + 1) % VecLen(p)]]
        q == CHOOSE c \in 0..d : /\ c * UtilityDivisor(self, p, k) <= d
                                 /\ d < (c + 1) * UtilityDivisor(self, p, k)
    IN  q

\* the positions of v whose value occurs at an earlier position as well
RepeatPositions(v) == {k \in DOMAIN v : \E m \in DOMAIN v : m < k /\ v[m] = v[k]}

\* every entry of v is a position of v
EntriesInRange(v) == \A k \in DOMAIN v : v[k] \in DOMAIN v

\* the sequence that the Hamiltonian checks are given
Checked == IF pc = "path" THEN path ELSE route.path

\* the edges of the cycle of p without their direction
UndirectedEdges(p) == {{p[k], p[(k + 1) % VecLen(p)]} : k \in DOMAIN p}

\* the vector that the twist runs are twisting
Twisted == IF pc = "path" THEN path ELSE route.path

----------------------------------------------------------------------------
(* Properties *)

\* C1: the path of the route that solve returns is a permutation of 0..N-1,
\* every vertex appears exactly once
SolveReturnsPermutation ==
    pc = "done" => IsPermutation(route.path, gls.size)

\* a run of solve on MaxN points that twisted the route has returned
SolveReturnsPermutationWitness ==
    /\ pc = "done"
    /\ gls.size = MaxN
    /\ last /= NoTwist

\* C2: the cost of the route that solve returns is the sum of the distances
\* of the N edges of its cycle
SolveCostIsDistanceSum ==
    pc = "done" => route.cost = TourCost(gls, route.path)

\* solve has returned a route that local search made cheaper than the
\* nearest-neighbour tour
SolveCostIsDistanceSumWitness ==
    /\ pc = "done"
    /\ last /= NoTwist
    /\ route.cost < nnCost
    /\ route.cost > 0

\* C3: when local_search has returned, no 2-opt move of two route positions
\* lowers the cost of the route
LocalSearchEndsAtLocalMinimum ==
    pc \in {"max_utility", "done"} => IsLocalMinimum(gls, route.path)

\* C4: solve runs to completion, the loop of local_search ends after finitely
\* many twists and solve returns
SolveTerminates == <>(pc = "done")

\* solve has returned after a local search of at least one twist on a tour
\* that was not yet a permutation in vertex order
SolveTerminatesWitness ==
    /\ pc = "done"
    /\ maxUtility >= 0
    /\ last /= NoTwist
    /\ last.before /= Sequential(gls.size)

\* C6: the pure distance never goes up across the phases of solve (nearest
\* neighbour tour >= after the local search >= returned route), and every
\* accepted twist of the local search strictly lowers it
CostNeverGoesUp ==
    /\ [](pc \in {"max_utility", "done"} =>
            /\ nnCost >= lsCost
            /\ lsCost >= TourCost(gls, route.path))
    /\ [][(pc = "local_search" /\ pc' = "local_search") =>
            /\ last' /= last
            /\ TourCost(gls, route'.path) < TourCost(gls, route.path)]_vars
    /\ [][(pc = "nearest_neighbor") => nnCost' = TourCost(gls, route'.path)]_vars
    /\ [][(pc = "local_search" /\ pc' = "max_utility") =>
            lsCost' = TourCost(gls, route'.path)]_vars

\* the local search has ended on a tour that two or more twists made shorter
CostNeverGoesUpWitness ==
    /\ pc = "max_utility"
    /\ lsCost < nnCost - 1
    /\ last /= NoTwist
    /\ TourCost(gls, last.before) < nnCost

\* C7: after any sequence of twist(i, j) calls, i <= j or i > j, on a path that
\* is a permutation of 0..N-1 the path is still one, and is_hamiltonian holds,
\* for Path::twist and for Route::twist
TwistKeepsHamiltonian ==
    /\ pc = "path" => (IsPermutation(path, VecLen(path)) /\ PathIsHamiltonian(path))
    /\ pc = "route" =>
          (IsPermutation(route.path, VecLen(route.path)) /\ RouteIsHamiltonian(route))

\* a route of MaxLen vertices after a wrap-around twist that moved vertices
TwistKeepsHamiltonianWitness ==
    /\ pc = "route"
    /\ VecLen(route.path) = MaxLen
    /\ last /= NoTwist
    /\ last.i > last.j
    /\ last.before /= route.path

\* C8: twist is an involution, twist(i, j) applied to the outcome of
\* twist(i, j) gives the sequence back position by position
TwistIsInvolution ==
    last /= NoTwist =>
        /\ pc = "path" => PathTwist(path, last.i, last.j) = last.before
        /\ pc = "route" => RouteTwist(route, last.i, last.j, 0).path = last.before

\* a path after a wrap-around twist(i, j), i > j + 1, that moved vertices
TwistIsInvolutionWitness ==
    /\ pc = "path"
    /\ last /= NoTwist
    /\ last.i > last.j + 1
    /\ last.before /= path
    /\ VecLen(path) >= 4

\* C9: for i > j, twist(i, j) reverses the segment of the positions
\* i, ..., N-1, 0, ..., j, of length L = N - i + j + 1: its k-th position gets
\* the old value of its (L-1-k)-th position and the positions strictly
\* between j and i keep their value; on [0..7], twist(5,2), twist(7,0) and
\* twist(3,2) give [7,6,5,3,4,2,1,0], [7,1,2,3,4,5,6,0] and [5,4,3,2,1,0,7,6]
TwistReversesAcrossTheEnd ==
    (last /= NoTwist /\ last.i > last.j) =>
        LET n == VecLen(Twisted)
            i == last.i
            j == last.j
            L == (n - i) + j + 1
        IN  /\ \A k \in 0..(L - 1) :
                  Twisted[(i + k) % n] = last.before[(i + ((L - 1) - k)) % n]
            /\ \A q \in DOMAIN Twisted : (j < q /\ q < i) => Twisted[q] = last.before[q]
            /\ (last.before = Sequential(FixtureLen) /\ i = 5 /\ j = 2) =>
                  Twisted = Vec(<<7, 6, 5, 3, 4, 2, 1, 0>>)
            /\ (last.before = Sequential(FixtureLen) /\ i = 7 /\ j = 0) =>
                  Twisted = Vec(<<7, 1, 2, 3, 4, 5, 6, 0>>)
            /\ (last.before = Sequential(FixtureLen) /\ i = 3 /\ j = 2) =>
                  Twisted = Vec(<<5, 4, 3, 2, 1, 0, 7, 6>>)

\* twist(5, 2) has been applied to the path [0..7] of the tests
TwistReversesAcrossTheEndWitness ==
    /\ pc = "path"
    /\ last = [i |-> 5, j |-> 2, before |-> Sequential(FixtureLen)]

\* C10: for i <= j, twist(i, j) reverses the segment in place: p'[k] = p[i+j-k]
\* for k in [i, j], every other position keeps its value, twist(i, i) changes
\* nothing; on [0..7], twist(2,5) gives [0,1,5,4,3,2,6,7]
TwistReversesInPlace ==
    (last /= NoTwist /\ last.i <= last.j) =>
        LET i == last.i
            j == last.j
        IN  /\ \A k \in DOMAIN Twisted :
                  Twisted[k] = IF i <= k /\ k <= j THEN last.before[(i + j) - k]
                               ELSE last.before[k]
            /\ i = j => Twisted = last.before
            /\ (last.before = Sequential(FixtureLen) /\ i = 2 /\ j = 5) =>
                  Twisted = Vec(<<0, 1, 5, 4, 3, 2, 6, 7>>)

\* twist(2, 5) has been applied to the path [0..7] of the tests
TwistReversesInPlaceWitness ==
    /\ pc = "path"
    /\ last = [i |-> 2, j |-> 5, before |-> Sequential(FixtureLen)]

\* C11: the nearest-neighbour tour starts with tour[0] = 0, and for each i in
\* 0..N-2 tour[i+1] is the vertex not yet placed that minimises
\* distance[i, v], the row being the loop counter i and not tour[i]; among
\* equally close vertices the earliest of the remaining list is chosen; the
\* cost of the result is the sum of the edges of its cycle
NearestNeighborRule ==
    (pc = "local_search" /\ last = NoTwist) =>
        /\ DOMAIN route.path = 0..(gls.size - 1)
        /\ route.path[0] = 0
        /\ \A i \in 0..(gls.size - 2) : IsNearestChoice(gls, route.path, i)
        /\ route.cost = TourCost(gls, route.path)
        /\ nnCost = route.cost

\* a nearest-neighbour tour on MaxN points with a step i whose row is not
\* the row of the vertex placed at i, where a tie was decided and where the
\* row of tour[i] has a closer vertex than the one chosen
NearestNeighborRuleWitness ==
    /\ pc = "local_search"
    /\ last = NoTwist
    /\ gls.size = MaxN
    /\ \E i \in 1..(gls.size - 2) :
          /\ route.path[i] /= i
          /\ \E w \in NotPlaced(route.path, i) :
                /\ w /= route.path[i + 1]
                /\ At(gls, i, w) = At(gls, i, route.path[i + 1])
          /\ \E w \in NotPlaced(route.path, i) :
                At(gls, route.path[i], w) < At(gls, route.path[i], route.path[i + 1])

\* C12: in the GLS step of solve every edge of the tour whose utility
\* distance / (1 + penalty) equals the largest utility u_max has its penalty
\* raised by exactly 1, in P[a, b] and in P[b, a]; all tied edges are
\* penalised and no other entry changes.  The penalties are 0 before the
\* step, so after it they are 1 on these edges and 0 elsewhere
MaxUtilityEdgesPenalised ==
    pc = "done" =>
        LET n == gls.size
            p == route.path
            d(a, b) == gls.data[(a * n) + b]
            isEdge(a, b) == \E k \in DOMAIN p : p[k] = a /\ p[(k + 1) % n] = b
            u_max == SetMax({d(p[k], p[(k + 1) % n]) : k \in DOMAIN p})
            hit(a, b) == (isEdge(a, b) \/ isEdge(b, a)) /\ d(a, b) = u_max
        IN  \A a, b \in 0..(n - 1) :
                gls.penalty[(a * n) + b] = IF hit(a, b) THEN 1 ELSE 0

\* C13: an empty or a 1-point input is rejected with a panic when the solver
\* is built or run, in a release build as in a debug build: no route is ever
\* produced for fewer than 2 points
NoRouteBelowTwoPoints ==
    VecLen(input) < 2 => (route = NoRoute /\ pc /= "done")

\* C14: interpolate_edges(p, skip) yields exactly the pairs (p[i], p[j]) with
\* i + 1 + skip <= j <= N-1, each once, in the lexicographic order of (i, j),
\* and nothing when skip >= N-1; on [2,0,1,3] skip 0 gives
\* [(2,0),(2,1),(2,3),(0,1),(0,3),(1,3)], skip 1 gives [(2,1),(2,3),(0,3)]
\* and skip 2 gives [(2,3)]
InterpolateEdgesYieldsSkipPairs ==
    (pc = "path" /\ out.op = "interpolate_edges") =>
        LET S == SkipPairs(VecLen(path), out.skip)
        IN  /\ DOMAIN out.value = 0..(Cardinality(S) - 1)
            /\ \A pr \in S : out.value[LexRank(S, pr)] = <<path[pr[1]], path[pr[2]]>>
            /\ out.skip >= VecLen(path) - 1 => VecLen(out.value) = 0
            /\ (path = ExamplePath /\ out.skip = 0) =>
                  out.value = Vec(<< <<2, 0>>, <<2, 1>>, <<2, 3>>, <<0, 1>>, <<0, 3>>, <<1, 3>> >>)
            /\ (path = ExamplePath /\ out.skip = 1) =>
                  out.value = Vec(<< <<2, 1>>, <<2, 3>>, <<0, 3>> >>)
            /\ (path = ExamplePath /\ out.skip = 2) =>
                  out.value = Vec(<< <<2, 3>> >>)

\* interpolate_edges(2) has returned the one pair of the path [2,0,1,3]
InterpolateEdgesYieldsSkipPairsWitness ==
    /\ pc = "path"
    /\ path = ExamplePath
    /\ out.op = "interpolate_edges"
    /\ out.skip = 2
    /\ VecLen(out.value) = 1

\* C15: as the doc comment of interpolate_edges says,
\* Path::new(vec![2, 0, 1, 3]).interpolate_edges(1) returns
\* [(2, 1), (2, 3), (1, 3)]
InterpolateEdgesDocExample ==
    (pc = "path" /\ path = ExamplePath /\ out.op = "interpolate_edges" /\ out.skip = 1) =>
        out.value = Vec(<< <<2, 1>>, <<2, 3>>, <<1, 3>> >>)

\* C16: edges(p) yields exactly N ordered pairs, (p[k], p[(k+1) mod N]) for
\* k = 0..N-1 in this order, the last being the closing edge (p[N-1], p[0]);
\* for N = 2 it yields (p[0], p[1]) and (p[1], p[0]); Path::edges and
\* Route::edges yield the same sequence for the same vertices
EdgesYieldsTheCycle ==
    out.op = "edges" =>
        LET p == Twisted
            n == VecLen(p)
        IN  /\ DOMAIN out.value = 0..(n - 1)
            /\ \A k \in 0..(n - 1) : out.value[k] = <<p[k], p[(k + 1) % n]>>
            /\ out.value[n - 1] = <<p[n - 1], p[0]>>
            /\ n = 2 => out.value = Vec(<< <<p[0], p[1]>>, <<p[1], p[0]>> >>)
            /\ PathEdges(p) = RouteEdges(RouteNew(p, 0))
            /\ p = ExamplePath =>
                  out.value = Vec(<< <<2, 0>>, <<0, 1>>, <<1, 3>>, <<3, 2>> >>)

\* Path::edges has returned the four edges of the path [2,0,1,3]
EdgesYieldsTheCycleWitness ==
    /\ pc = "path"
    /\ path = ExamplePath
    /\ out.op = "edges"
    /\ VecLen(out.value) = 4
    /\ out.value[3] = <<3, 2>>

\* C17: the tour cost is the sum of M[p[k], p[(k+1) mod N]] over the N
\* positions, closing edge included: GuidedLocalSearch::sum_edges(p) and
\* Graph::sum_edges(p) are that sum over their own entries and equal
\* SymmetricMatrix::sum over edges(p) of the matrix with the same entries,
\* for every matrix and every path of length N (14 for [0,1,2,3] and 18 for
\* [1,3,0,2] on the matrix of the tests), and sum_edges panics when the
\* length of the path differs from the size of the matrix
SumEdgesIsSumOverEdges ==
    /\ out.op \in {"gls.sum_edges", "graph.sum_edges"} =>
          /\ out.panic = (VecLen(out.path) /= matrix.size)
          /\ ~out.panic =>
                /\ out.value = TourCost(Summed, out.path)
                /\ Summed.data = matrix.data =>
                      /\ out.value = MatrixSum(matrix, PathEdges(out.path))
                      /\ out.value = TourCost(matrix, out.path)
                /\ (Summed.data = SimpleData /\ out.path = Vec(<<0, 1, 2, 3>>)) =>
                      out.value = 14
                /\ (Summed.data = SimpleData /\ out.path = Vec(<<1, 3, 0, 2>>)) =>
                      out.value = 18
    /\ out.op = "matrix.sum" =>
          out.value = SumOver([k \in DOMAIN out.path |->
                                  matrix.data[(out.path[k] * matrix.size)
                                              + out.path[(k + 1) % VecLen(out.path)]]],
                              DOMAIN out.path)

\* gls.sum_edges(&[1, 3, 0, 2]) has returned 18 on the matrix of the tests
SumEdgesIsSumOverEdgesWitness ==
    /\ pc = "matrix"
    /\ out.op = "gls.sum_edges"
    /\ gls.data = SimpleData
    /\ out.path = Vec(<<1, 3, 0, 2>>)
    /\ ~out.panic
    /\ out.value = 18

\* C18: the sum of the matrix entries over the cycle edges of a path does
\* not change when the path is rotated: for every matrix, every path p and
\* every shift s the sum over edges(rotate(p, s)) is the sum over edges(p)
SumIsRotationInvariant ==
    SumReturned =>
        \A s \in 0..(VecLen(out.path) - 1) : SameSum(Rotate(out.path, s)) = out.value

\* graph.sum_edges has returned on a path of MaxMatN vertices whose edges
\* do not all have the same entry
SumIsRotationInvariantWitness ==
    /\ pc = "matrix"
    /\ out.op = "graph.sum_edges"
    /\ ~out.panic
    /\ graph.size = MaxMatN
    /\ Rotate(out.path, 1) /= out.path
    /\ \E k \in DOMAIN out.path :
          GraphAt(graph, out.path[k], out.path[(k + 1) % MaxMatN])
              /= GraphAt(graph, out.path[VecLen(out.path) - 1], out.path[0])

\* C19: a symmetric matrix stays symmetric: after its construction and after
\* any sequence of set(x, y, v) calls get(i, j) = get(j, i) for all i, j, and
\* set(x, y, v) changes the entries (x, y) and (y, x) only; the penalty
\* matrix is symmetric as well, no write ever reaching it: it is all zeros.
\* A debug build that panics in a write leaves the matrix as it was
SymmetricMatrixStaysSymmetric ==
    /\ (pc = "matrix" \/ (pc = "panic" /\ debug)) =>
        /\ IsSymmetric(matrix.size, matrix.data)
        /\ \A i, j \in 0..(matrix.size - 1) : MatrixAt(matrix, i, j) = MatrixAt(matrix, j, i)
        /\ IsSymmetric(gls.size, gls.penalty)
        /\ \A k \in DOMAIN gls.penalty : gls.penalty[k] = 0
    /\ pc = "matrix" =>
        /\ out.op = "set" =>
              /\ matrix.size = out.before.size
              /\ \A i, j \in 0..(matrix.size - 1) :
                    MatrixAt(matrix, i, j) =
                        IF (i = out.x /\ j = out.y) \/ (i = out.y /\ j = out.x)
                        THEN out.value
                        ELSE MatrixAt(out.before, i, j)

\* the second set call on a matrix of MaxMatN rows wrote a new value to two
\* entries off the diagonal
SymmetricMatrixStaysSymmetricWitness ==
    /\ pc = "matrix"
    /\ out.op = "set"
    /\ out.nth = 2
    /\ matrix.size = MaxMatN
    /\ out.x /= out.y
    /\ MatrixAt(out.before, out.x, out.y) /= out.value
    /\ MatrixAt(matrix, out.y, out.x) = out.value

\* C20: the distance matrix built from N > 0 points has, for all i and j,
\* M[i][j] = M[j][i] = the integer part of sqrt(dx*dx + dy*dy) of the points
\* i and j, and M[i][i] = 0; GuidedLocalSearch::new,
\* SymmetricMatrix::from_euclidean_coords and Graph::new build the same matrix
\* from the same points
ConstructorsBuildTheDistanceMatrix ==
    (pc \in {"new", "solve"} /\ VecLen(input) > 0) =>
        /\ gls /= NoGls =>
              /\ IsDistanceMatrix(gls.size, gls.data)
              /\ \A i, j \in 0..(gls.size - 1) : At(gls, i, j) = At(gls, j, i)
        /\ matrix /= NoMatrix =>
              /\ IsDistanceMatrix(matrix.size, matrix.data)
              /\ \A i, j \in 0..(matrix.size - 1) : MatrixAt(matrix, i, j) = MatrixAt(matrix, j, i)
        /\ graph /= NoGraph =>
              /\ IsDistanceMatrix(graph.size, graph.data)
              /\ \A i, j \in 0..(graph.size - 1) : GraphAt(graph, i, j) = GraphAt(graph, j, i)
        /\ (gls /= NoGls /\ matrix /= NoMatrix) =>
              (gls.size = matrix.size /\ gls.data = matrix.data)
        /\ (gls /= NoGls /\ graph /= NoGraph) =>
              (gls.size = graph.size /\ gls.data = graph.data)
        /\ (matrix /= NoMatrix /\ graph /= NoGraph) =>
              (matrix.size = graph.size /\ matrix.data = graph.data)
        /\ pc = "solve" <=> gls /= NoGls

\* the three constructors have built the matrix of MaxPoints points, two of
\* which are at a distance that is not an integer
ConstructorsBuildTheDistanceMatrixWitness ==
    /\ VecLen(input) = MaxPoints
    /\ gls /= NoGls
    /\ matrix /= NoMatrix
    /\ graph /= NoGraph
    /\ \E i, j \in 0..(MaxPoints - 1) :
          /\ i < j
          /\ At(gls, i, j) > 0
          /\ At(gls, i, j) * At(gls, i, j) < SquaredDistance(i, j)

\* C21: for N = 2 the local search and the whole of solve leave the tour as
\* it is: no pair is scanned, no twist is applied, and solve returns the tour
\* [0, 1] with the cost distance[0, 1] + distance[1, 0], whatever the seed
SolveOfTwoPointsIsTrivial ==
    (gls.size = 2 /\ pc \in {"local_search", "max_utility", "done"}) =>
        /\ ScanPairs(VecLen(neighborhood)) = {}
        /\ last = NoTwist
        /\ route.path = Vec(<<0, 1>>)
        /\ route.cost = gls.data[1] + gls.data[2]
        /\ nnCost = route.cost
        /\ pc \in {"max_utility", "done"} => lsCost = route.cost

\* solve has returned for two points that are apart, the shuffle having put
\* vertex 1 first
SolveOfTwoPointsIsTrivialWitness ==
    /\ pc = "done"
    /\ gls.size = 2
    /\ neighborhood = Vec(<<1, 0>>)
    /\ route.cost > 0

\* C22: during a local search the cost of the route stays the cost of its
\* path: after every accepted twist it is the sum of the distances of the
\* cycle (the penalty factors are 0, so cost = sum_edges(path)), for every
\* distance matrix, every order and all positions, those of the wrap-around
\* twists i > j and of i = N-1 included
CostFollowsThePath ==
    pc \in {"local_search", "max_utility", "done"} =>
        /\ route.cost = sum_edges(gls, route.path)
        /\ route.cost = TourCost(gls, route.path)

\* a local search has accepted a wrap-around twist(i_next, j), i_next > j,
\* that moved vertices and made the route cheaper
CostFollowsThePathWitness ==
    /\ pc = "local_search"
    /\ gls.size = MaxSearchN
    /\ last /= NoTwist
    /\ last.i > last.j
    /\ last.before /= route.path
    /\ route.cost < nnCost

\* C23: one local_search_step examines the pairs (order[a], order[b]) with
\* b >= a + 2 in the lexicographic order of (a, b), applies twist(i_next, j)
\* for the first pair whose cost change is negative, adds that change to the
\* cost and ends the step, so that the next step scans from the beginning
\* again; it applies at most one twist, and when no pair improves it returns
\* 0 and leaves the path and the cost as they are
StepTakesFirstImprovingPair ==
    [][pc = "local_search" =>
        LET n == VecLen(route.path)
            improving == ImprovingOrderPairs(gls, route.path, neighborhood)
        IN  IF improving = {}
            THEN /\ route' = route
                 /\ last' = last
                 /\ pc' = "max_utility"
            ELSE \E pr \in improving :
                    /\ \A qr \in improving : LexLeq(pr, qr)
                    /\ LET i == neighborhood[pr[1]]
                           j == neighborhood[pr[2]]
                       IN  /\ route'.path = TwistVec(route.path, (i + 1) % n, j)
                           /\ route'.cost = route.cost + MoveGain(gls, route.path, i, j)
                           /\ last' = [i |-> (i + 1) % n, j |-> j, before |-> route.path]
                           /\ pc' = "local_search"]_vars

\* a step has applied a twist to a route that had two improving pairs, the
\* first one of the scan not being the one with the smaller inner position
StepTakesFirstImprovingPairWitness ==
    /\ pc = "local_search"
    /\ last /= NoTwist
    /\ LET improving == ImprovingOrderPairs(gls, last.before, neighborhood)
       IN  \E pr, qr \in improving :
              /\ pr[1] < qr[1]
              /\ qr[2] < pr[2]
              /\ last.j = neighborhood[pr[2]]
              /\ last.i = (neighborhood[pr[1]] + 1) % gls.size
              /\ TwistVec(last.before, (neighborhood[qr[1]] + 1) % gls.size, neighborhood[qr[2]])
                    /= route.path

\* C24: for every scanned pair of route positions the cost change that decides
\* the move is (c(a,b) + c(a',b')) - (c(a,a') + c(b,b')) with
\* c(x,y) = distance[x,y] + lambda * P[x,y] and the same integer lambda on the
\* removed and on the added edges; the change that solve's local search uses
\* (both factors 0) is that value for every lambda, no penalty being set
CostChangeIsPenalisedDelta ==
    pc = "local_search" =>
        \A pr \in ScanPairs(VecLen(neighborhood)) :
            LET i == neighborhood[pr[1]]
                j == neighborhood[pr[2]]
            IN  \A lambda \in 0..MaxFactor :
                    /\ CostChange(gls, route, i, j, lambda, lambda)
                          = PenalisedDelta(gls, lambda, route.path, i, j)
                    /\ CostChange(gls, route, i, j, 0, 0)
                          = PenalisedDelta(gls, lambda, route.path, i, j)

\* a twist has been applied for a pair whose four vertices are distinct, whose
\* second edge is the closing edge of the tour, and whose delta was negative
CostChangeIsPenalisedDeltaWitness ==
    /\ pc = "local_search"
    /\ last /= NoTwist
    /\ gls.size = MaxSearchN
    /\ last.j = gls.size - 1
    /\ LET i == (last.i + gls.size - 1) % gls.size
       IN  /\ PenalisedDelta(gls, 0, last.before, i, last.j) < 0
           /\ route.cost = sum_edges(gls, last.before)
                             + PenalisedDelta(gls, 0, last.before, i, last.j)
           /\ Cardinality({last.before[i], last.before[last.i],
                           last.before[last.j], last.before[0]}) = 4

\* C25: local search never crosses two adjacent tour edges: whatever the order
\* of the neighbourhood, the pair of route positions i, j of an applied twist
\* (twist(i + 1 mod N, j)) is never a pair of cyclic neighbours of the tour
NoTwistOfCyclicNeighbours ==
    last /= NoTwist =>
        LET n == gls.size
            i == (last.i + n - 1) % n
        IN  /\ i /= last.j
            /\ ~CyclicNeighbours(n, i, last.j)

\* a twist has been applied although the scan came to a pair of cyclic
\* neighbours before the pair of the twist
NoTwistOfCyclicNeighboursWitness ==
    /\ pc = "local_search"
    /\ last /= NoTwist
    /\ LET n == gls.size
           i == (last.i + n - 1) % n
       IN  \E pr, qr \in ScanPairs(n) :
              /\ neighborhood[pr[1]] = i
              /\ neighborhood[pr[2]] = last.j
              /\ ScanBefore(qr, pr)
              /\ CyclicNeighbours(n, neighborhood[qr[1]], neighborhood[qr[2]])

\* C26: after the initial local search the utility of a tour edge is the
\* truncated quotient distance / (1 + P), and u_max is the largest utility
\* over exactly the N edges of the tour, the closing edge included; the
\* divisor is at least 1, so nothing is divided by zero
MaxUtilityOverTheTourEdges ==
    pc = "done" =>
        LET p == route.path
        IN  /\ VecLen(p) = gls.size
            /\ \A k \in DOMAIN p : UtilityDivisor(gls, p, k) >= 1
            /\ \A k \in DOMAIN p : Utility(gls, p, k) <= maxUtility
            /\ \E k \in DOMAIN p : Utility(gls, p, k) = maxUtility

\* solve has computed u_max for a tour of MaxSearchN vertices whose closing
\* edge has a larger utility than every other edge
MaxUtilityOverTheTourEdgesWitness ==
    /\ pc = "done"
    /\ gls.size = MaxSearchN
    /\ LET p == route.path
           n == VecLen(p)
       IN  /\ Utility(gls, p, n - 1) = maxUtility
           /\ \A k \in 0..(n - 2) : Utility(gls, p, k) < maxUtility

\* C27: on a sequence of vertices (entries below its length N)
\* check_hamiltonian returns Ok exactly when no vertex occurs twice, that is
\* when the sequence is a permutation of 0..N-1; otherwise it returns
\* VisitedTwice(v), v being the value at the earliest position whose value
\* occurred at an earlier position.  is_hamiltonian is true exactly when
\* check_hamiltonian returns Ok, and Path and Route make the same check
CheckHamiltonianFindsFirstRepeat ==
    /\ (out.op = "check_hamiltonian" /\ EntriesInRange(Checked)) =>
          LET p == Checked
              repeats == RepeatPositions(p)
          IN  /\ (out.value = Ok) <=> (repeats = {})
              /\ (out.value = Ok) <=> IsPermutation(p, VecLen(p))
              /\ repeats /= {} =>
                    \E k \in repeats :
                        /\ \A m \in repeats : k <= m
                        /\ out.value = VisitedTwice(p[k])
              /\ p = Sequential(FixtureLen) => out.value = Ok
              /\ p = Vec(<<1, 1, 2, 3, 4, 5, 6, 7>>) => out.value = VisitedTwice(1)
              /\ p = Vec(<<0, 1, 2, 3, 4, 2, 6, 7>>) => out.value = VisitedTwice(2)
              /\ p = Vec(<<0, 1, 2, 3, 4, 5, 6, 0>>) => out.value = VisitedTwice(0)
    /\ (out.op = "is_hamiltonian" /\ EntriesInRange(Checked)) =>
          /\ ~out.panic
          /\ out.value <=> (PathCheckHamiltonian(Checked) = Ok)
          /\ out.value <=> (RepeatPositions(Checked) = {})
    /\ out.op \in {"check_hamiltonian", "is_hamiltonian"} =>
          /\ PathCheckHamiltonian(Checked) = RouteCheckHamiltonian(RouteNew(Checked, 0))
          /\ PathIsHamiltonian(Checked) = RouteIsHamiltonian(RouteNew(Checked, 0))

\* check_hamiltonian has returned VisitedTwice for a path of MaxHamLen
\* vertices in which two values are repeated, the value repeated first not
\* being the first value of the path
CheckHamiltonianFindsFirstRepeatWitness ==
    /\ pc = "path"
    /\ out.op = "check_hamiltonian"
    /\ VecLen(path) = MaxHamLen
    /\ EntriesInRange(path)
    /\ Cardinality(RepeatPositions(path)) = 2
    /\ out.value.kind = "VisitedTwice"
    /\ out.value.vertex /= path[0]
    /\ \E k \in RepeatPositions(path) : path[k] /= out.value.vertex

\* C28: every index of the unchecked accesses is in range: for N >= 2, every
\* order of the neighbourhood and every route that solve reaches, the route
\* positions used by nearest_neighbor, sum_edges, local_search_step and twist
\* are below N, the vertices used as matrix coordinates are below N, and
\* every flat index x * N + y is below N * N
UncheckedIndexesInRange ==
    LET n == gls.size
        positions == 0..(n - 1)
        inMatrix(coords) ==
            \A c \in coords : /\ c[1] \in positions
                               /\ c[2] \in positions
                               /\ get_index(gls, c[1], c[2]) \in 0..((n * n) - 1)
                               /\ get_index(gls, c[1], c[2]) \in DOMAIN gls.data
                               /\ get_index(gls, c[1], c[2]) \in DOMAIN gls.penalty
    IN  /\ pc \in {"local_search", "max_utility", "done"} =>
              /\ n >= 2
              /\ VecLen(route.path) = n
              /\ NearestPositions(gls) \subseteq positions
              /\ inMatrix(NearestCoords(gls, 0, [k \in 0..(n - 2) |-> k + 1]))
              /\ SumEdgesPositions(route.path) \subseteq positions
              /\ inMatrix(SumEdgesCoords(route.path))
        /\ pc = "local_search" =>
              \A pr \in ScanPairs(VecLen(neighborhood)) :
                  LET i == neighborhood[pr[1]]
                      j == neighborhood[pr[2]]
                      at == StepPositions(VecLen(route.path), i, j)
                  IN  /\ at \subseteq positions
                      /\ at \subseteq DOMAIN route.path
                      /\ inMatrix(StepCoords(route.path[i], route.path[(i + 1) % n],
                                             route.path[j], route.path[(j + 1) % n]))
        /\ last /= NoTwist =>
              /\ last.i \in positions
              /\ last.j \in positions
              /\ TwistPositions(n, last.i, last.j) \subseteq positions

\* a search over MaxLiveN points or more has read the last position of the
\* route and its wrapped next position 0, and has applied a twist whose
\* first position is after its second one
UncheckedIndexesInRangeWitness ==
    /\ pc = "local_search"
    /\ gls.size >= MaxLiveN
    /\ last /= NoTwist
    /\ last.i > last.j
    /\ Cardinality(TwistPositions(gls.size, last.i, last.j)) >= 2
    /\ \E pr \in ScanPairs(VecLen(neighborhood)) :
          /\ neighborhood[pr[1]] = gls.size - 1
          /\ 0 \in StepPositions(gls.size, neighborhood[pr[1]], neighborhood[pr[2]])

\* C29: the two orientations of a 2-opt move are equivalent: for two route
\* positions i /= j and a symmetric matrix the cost change of the pair
\* (i, j) is the cost change of (j, i), and twist((i+1) mod N, j) and
\* twist((j+1) mod N, i) give the same undirected cycle, the same set of
\* edges, hence the same tour cost
OrientationsAreEquivalent ==
    pc = "local_search" =>
        LET p == route.path
            n == VecLen(p)
        IN  /\ IsSymmetric(gls.size, gls.data)
            /\ \A i, j \in DOMAIN p :
                  i /= j =>
                    LET one == RouteTwist(route, (i + 1) % n, j,
                                          CostChange(gls, route, i, j, 0, 0))
                        other == RouteTwist(route, (j + 1) % n, i,
                                            CostChange(gls, route, j, i, 0, 0))
                    IN  /\ CostChange(gls, route, i, j, 0, 0)
                              = CostChange(gls, route, j, i, 0, 0)
                        /\ UndirectedEdges(one.path) = UndirectedEdges(other.path)
                        /\ TourCost(gls, one.path) = TourCost(gls, other.path)
                        /\ one.cost = other.cost
                        /\ one.cost = TourCost(gls, one.path)

\* a step has twisted a route of MaxScanN vertices for a pair (i, j) whose
\* other orientation, twist((j+1) mod N, i), gives another vector with the
\* same undirected edges, and these are not the edges before the twist
OrientationsAreEquivalentWitness ==
    /\ pc = "local_search"
    /\ last /= NoTwist
    /\ gls.size = MaxScanN
    /\ LET n == gls.size
           i == (last.i + n - 1) % n
           other == TwistVec(last.before, (last.j + 1) % n, i)
       IN  /\ route.path = TwistVec(last.before, last.i, last.j)
           /\ other /= route.path
           /\ UndirectedEdges(other) = UndirectedEdges(route.path)
           /\ UndirectedEdges(last.before) /= UndirectedEdges(route.path)
           /\ (last.j + 1) % n > i

====
